---- MODULE Spec2Model ----
(***************************************************************************)
(* Torch controller of react-native-torch-nitro.                           *)
(*                                                                         *)
(* Two native implementations of the HybridTorch object are modelled side  *)
(* by side, selected by cfg.platform:                                      *)
(*   android : src/unnamed/part_002 (Kotlin, CameraManager + TorchCallback)*)
(*   ios     : src/README.md lines 882-1104 (Swift, AVCaptureDevice)       *)
(*                                                                         *)
(* Every on/off/toggle/setLevel call runs inside Promise.async, i.e. on a  *)
(* worker thread of its own, with no lock around the controller's fields.  *)
(* A call is therefore a small process (pc) whose steps are the points at  *)
(* which it reads or writes shared state or enters the hardware.  On       *)
(* Android the hardware answers through TorchCallback, whose invocations   *)
(* are queued on one handler thread (queue) and run one at a time.         *)
(*                                                                         *)
(* Levels are integers; None stands for Kotlin null / Swift nil.  iOS      *)
(* torch intensities (0.0 .. 1.0) are kept in thousandths, and the iOS     *)
(* field currentLevel in thousandths of a level.                           *)
(***************************************************************************)
EXTENDS Integers, Sequences, FiniteSets, TLC

(* ------------------------------ bounds -------------------------------- *)

\* calls of one observation window (they may overlap)
MaxCalls == 2
\* TorchCallback invocations waiting on the handler thread
MaxQueue == 2
\* setLevel arguments are drawn from 0 .. MaxArg
MaxArg == 3

(* ------------------------- program constants -------------------------- *)

\* null / nil level
None == 0
\* Build.VERSION_CODES.M
MIN_API_LEVEL == 23
\* Build.VERSION_CODES.TIRAMISU
TIRAMISU == 33
\* iOS maxTorchLevel (10 discrete levels)
maxTorchLevel == 10
\* iOS initial currentLevel 1.0, in thousandths of a level
IosInitialLevel == 1000
\* iOS lower clamp 0.1 of the torch intensity, in thousandths
IosMinIntensity == 100
\* iOS upper clamp 1.0 of maxAvailableTorchLevel, in thousandths
IosFullIntensity == 1000
\* a thermal ceiling below 1.0 (0.5), in thousandths
IosThrottled == 500
\* FLASH_INFO_STRENGTH_DEFAULT_LEVEL of the modelled device
HwDefaultLevel == 1
\* an API level below MIN_API_LEVEL
ApiBelowMin == 22

Procs == 1 .. MaxCalls
LevelArgs == 0 .. MaxArg
Ops == {"on", "off", "toggle", "setLevel"}

(* --------------------------- device profiles -------------------------- *)

\* FLASH_INFO_STRENGTH_MAXIMUM_LEVEL of the modelled Android devices
HwMaxLevel == MaxArg - 1

Profile(pl, sdk, mgr, cams, ml, th) ==
    [platform |-> pl, sdk |-> sdk, manager |-> mgr, cameras |-> cams,
     maxLevel |-> ml, thermal |-> th]

AndroidProfiles ==
    { Profile("android", TIRAMISU, TRUE, "flash", HwMaxLevel, IosFullIntensity),
      Profile("android", TIRAMISU, TRUE, "flash", 1, IosFullIntensity),
      Profile("android", TIRAMISU, TRUE, "noflash", 1, IosFullIntensity),
      Profile("android", TIRAMISU, TRUE, "none", 1, IosFullIntensity),
      Profile("android", TIRAMISU, FALSE, "none", 1, IosFullIntensity),
      Profile("android", MIN_API_LEVEL, TRUE, "flash", 1, IosFullIntensity),
      Profile("android", ApiBelowMin, TRUE, "flash", 1, IosFullIntensity) }

IosProfiles ==
    { Profile("ios", TIRAMISU, TRUE, c, maxTorchLevel, th) :
        c \in {"flash", "noflash", "none"}, th \in {IosThrottled, IosFullIntensity} }

Profiles == AndroidProfiles \cup IosProfiles

VARIABLES
    cfg,            \* the device profile (never changes)
    isTorchOn,      \* HybridTorch.isTorchOn
    previousLevel,  \* HybridTorch.previousLevel (last level handed to onLevelChanged)
    currentLevel,   \* iOS HybridTorch.currentLevel, thousandths of a level
    cameraId,       \* Android: TRUE once ensureCameraId has cached an id
    hwOn,           \* the physical torch
    hwLevel,        \* Android: strength level; iOS: intensity in thousandths
    queue,          \* Android: TorchCallback invocations not yet run
    pc, op, arg, frac, target, res, locked, awaited,   \* the calls
    pre, clean, trace,                           \* the observation window
    stTick,                                      \* flips at every stateChanged delivery
    caught,         \* JS: the value a catch block of the Torch wrapper received
    normalized,     \* JS: the record parseAndNormalizeError made of it
    onStateChanged, \* HybridTorch.onStateChanged: the listener it calls, or "none"
    onLevelChanged, \* HybridTorch.onLevelChanged: the listener it calls, or "none"
    assigned,       \* JS: what the application last assigned to each of the two
    got,            \* JS: what the last getMaxLevel call returned
    unregistered,   \* Android: unregisterTorchCallback has run
    raised,         \* native: the error kind and message put on the wire
    conv,           \* a level on its way to the native scale and back
    hook,           \* JS: one call of a function returned by useTorch
    mounted,        \* JS: the components using useTorch, in mounting order
    otherOn         \* Android: the torch of a flash unit other than the selected one

vars == <<cfg, isTorchOn, previousLevel, currentLevel, cameraId, hwOn, hwLevel,
          queue, pc, op, arg, frac, target, res, locked, awaited,
          pre, clean, trace, stTick, caught, normalized,
          onStateChanged, onLevelChanged, assigned, got, unregistered,
          raised, conv, hook, mounted, otherOn>>

sysVars == <<isTorchOn, previousLevel, currentLevel, cameraId, hwOn, hwLevel, queue>>
callVars == <<pc, op, arg, frac, target, res, locked, awaited>>
obsVars == <<pre, clean, trace, stTick>>
auxVars == <<raised, conv, hook, mounted, otherOn>>
appVars == <<onStateChanged, onLevelChanged, assigned, got, unregistered, auxVars>>

Android == cfg.platform = "android"
Ios == cfg.platform = "ios"

(* ------------------------------ events -------------------------------- *)

\* an invocation of the listener found in the slot of its event type
StateEv(v, was) ==
    [k |-> "state", on |-> v, lvl |-> None, wasOn |-> was, wasLvl |-> None,
     to |-> onStateChanged]
LevelEv(l, was) ==
    [k |-> "level", on |-> FALSE, lvl |-> l, wasOn |-> FALSE, wasLvl |-> was,
     to |-> onLevelChanged]

IsStateEv(e) == e.k = "state"
IsLevelEv(e) == e.k = "level"

\* onStateChanged?.invoke / onLevelChanged?.invoke: nothing is called when the
\* slot is empty
Invoked(evs) == SelectSeq(evs, LAMBDA e : e.to # "none")

\* The listeners onStateChanged / onLevelChanged are invoked with evs, in order.
Emit(evs) ==
    /\ trace' = IF clean THEN trace \o Invoked(evs) ELSE << >>
    /\ stTick' = IF \E i \in 1 .. Len(Invoked(evs)) : IsStateEv(Invoked(evs)[i])
                 THEN ~stTick ELSE stTick

\* the controller and the torch when the observation window opened
NoPre == [isOn |-> FALSE, level |-> None, hwOn |-> FALSE]

Snapshot == [isOn |-> isTorchOn, level |-> previousLevel, hwOn |-> hwOn]

(* ---------------------- errors crossing into JS ------------------------ *)

\* TorchExceptionType
TorchExceptionType ==
    {"CameraServiceUnavailable", "ApiLevelTooLow", "NoFlashAvailable",
     "BrightnessControlNotSupported", "AccessFailed", "LevelUnavailable", "Unknown"}

\* what the "code" member of a payload can be: a declared kind, some other
\* string, or missing
PayloadCodes == TorchExceptionType \cup {"Undeclared", "absent"}

\* what the "message" member of a payload can be
PayloadMessages == {"string", "nonstring", "absent"}

\* A value caught by the wrapper.  isError: it is an Error object.  shape: what
\* its message text is - "empty", plain "text", the JSON literal "null", a
\* JSON "number", or a JSON "object".  For an object: prefix - other text
\* precedes the opening brace; type - it has a "type" member ahead of its
\* "message" member; code, msg - its "code" and "message" members.
Thrown(e, sh, pf, ty, c, m) ==
    [isError |-> e, shape |-> sh, prefix |-> pf, type |-> ty, code |-> c, msg |-> m]

ThrownValues ==
    {Thrown(TRUE, "object", pf, ty, c, m) :
        pf \in BOOLEAN, ty \in BOOLEAN, c \in PayloadCodes, m \in PayloadMessages}
    \cup {Thrown(e, sh, FALSE, FALSE, "absent", "absent") :
        e \in BOOLEAN, sh \in {"empty", "text", "null", "number"}}

NothingCaught == Thrown(FALSE, "none", FALSE, FALSE, "absent", "absent")
NoRecord == [code |-> "", message |-> ""]

\* message.match(/\{[^}]*"type"[^}]*"message"[^}]*\}/)
JsonMatch(e) == e.shape = "object" /\ e.type /\ e.msg # "absent"

\* JSON.parse(message) returns a value whose members can be read
JsonParses(e) == (e.shape = "object" /\ ~e.prefix) \/ e.shape = "number"

parseTorchError(e) ==
    IF JsonMatch(e) \/ (JsonParses(e) /\ e.shape = "object")
    THEN [code |-> e.code, message |-> e.msg]
    ELSE IF JsonParses(e)
    THEN [code |-> "absent", message |-> "absent"]
    ELSE [code |-> "Unknown", message |-> "string"]

parseAndNormalizeError(e) ==
    IF e.isError
    THEN parseTorchError(e)
    ELSE [code |-> "AccessFailed", message |-> "string"]

\* What a rejected native promise carries.  handleTorchException and the Swift
\* catch blocks put createTorchErrorJson / toJSON in the message; any other
\* exception leaving Promise.async carries its own plain message.
NativeThrown(r) ==
    IF r \in TorchExceptionType
    THEN Thrown(TRUE, "object", FALSE, FALSE, r, "string")
    ELSE Thrown(TRUE, "text", FALSE, FALSE, "absent", "absent")

\* the code of the record the application's catch receives for native outcome r
Reported(r) == parseAndNormalizeError(NativeThrown(r)).code

(* ------------------------------- Init --------------------------------- *)

\* Android: registerTorchCallback (init block) makes the platform announce the
\* current torch mode of the flash unit once; the invocation waits on the
\* handler thread.
InitialQueue(c) ==
    IF c.platform = "android" /\ c.manager /\ c.cameras = "flash" /\ c.sdk >= MIN_API_LEVEL
    THEN << [k |-> "mode", on |-> FALSE, lvl |-> None, own |-> TRUE] >>
    ELSE << >>

\* the fields of a freshly constructed HybridTorch on device profile cfg
\* no level is being converted
NoConversion ==
    [scale |-> "none", stage |-> "none", level |-> None, err |-> 0,
     float |-> None, native |-> None, back |-> None]

\* no function of the hook has been called
NoHookCall == [method |-> "none", handler |-> FALSE, outcome |-> "none", told |-> << >>]

\* no getMaxLevel call yet; value is in thousandths of a level, None for null
NoResult == [called |-> FALSE, dynamic |-> FALSE, value |-> None]

Constructed ==
    /\ isTorchOn = FALSE
    /\ previousLevel = None
    /\ currentLevel = IosInitialLevel
    /\ cameraId = FALSE
    /\ hwOn = FALSE
    /\ hwLevel = IF cfg.platform = "android" THEN HwDefaultLevel ELSE 0
    /\ queue = InitialQueue(cfg)
    /\ pc = [p \in Procs |-> "idle"]
    /\ op = [p \in Procs |-> "on"]
    /\ arg = [p \in Procs |-> None]
    /\ frac = [p \in Procs |-> FALSE]
    /\ target = [p \in Procs |-> FALSE]
    /\ res = [p \in Procs |-> ""]
    /\ locked = [p \in Procs |-> FALSE]
    /\ awaited = [p \in Procs |-> FALSE]
    /\ pre = NoPre
    /\ clean = FALSE
    /\ trace = << >>
    /\ stTick = FALSE
    /\ got = NoResult
    /\ unregistered = FALSE
    /\ raised = NoRecord
    /\ otherOn = FALSE
    /\ conv = NoConversion
    /\ hook = NoHookCall

\* the listeners of the application, and no listener
Listeners == {"none", "A", "B"}

\* useTorch's effects have assigned both listeners
Hooked ==
    /\ onStateChanged = "A"
    /\ onLevelChanged = "A"
    /\ assigned = [state |-> "A", level |-> "A"]
    /\ mounted = << "A" >>

Init ==
    /\ cfg \in Profiles
    /\ Constructed
    /\ Hooked
    /\ caught = NothingCaught
    /\ normalized = NoRecord

(* ------------------------ issuing calls (JS) -------------------------- *)

\* The level argument of call p, in thousandths: arg[p], or arg[p] + 0.5 when
\* the application passed a number that is not whole.
LevelArg(p) == arg[p] * 1000 + (IF frac[p] THEN 500 ELSE 0)

\* a range check that forgets the upper end: the variant of OutOfRange against
\* which C25 is measured
OutOfRangeLax(p, maxLevel) == LevelArg(p) < 1000

\* level < 1 || level > maxLevel
OutOfRange(p, maxLevel) == LevelArg(p) < 1000 \/ LevelArg(p) > maxLevel * 1000

Used == {p \in Procs : pc[p] # "idle"}
AllDone == \A p \in Procs : pc[p] \in {"idle", "done"}

\* toggle first evaluates its argument !isTorchOn; on/off/setLevel carry theirs;
\* dispose starts with its own test of isTorchOn
FirstPc(o) == IF o = "toggle" THEN "start" ELSE IF o = "dispose" THEN "dcheck" ELSE "check"
TargetOf(o) == o \in {"on", "setLevel"}

Settled == AllDone /\ queue = << >>

LeastIdle == CHOOSE p \in Procs : pc[p] = "idle" /\ \A q \in Procs : pc[q] = "idle" => p <= q

\* The records of completed calls matter only inside an observation window:
\* outside one, a completed call leaves its slot at once.
Forgotten(f, blank) == [p \in Procs |-> IF pc[p] = "done" THEN blank ELSE f[p]]

ForgetCalls ==
    /\ pc' = Forgotten(pc, "idle")
    /\ op' = Forgotten(op, "on")
    /\ arg' = Forgotten(arg, None)
    /\ frac' = Forgotten(frac, FALSE)
    /\ res' = Forgotten(res, "")
    /\ locked' = Forgotten(locked, FALSE)
    /\ awaited' = Forgotten(awaited, FALSE)
    /\ UNCHANGED target

\* something other than the window's own calls acts on the torch: the window ends
EndWindow ==
    /\ clean' = FALSE
    /\ trace' = << >>
    /\ pre' = NoPre
    /\ ForgetCalls

\* The JS side calls Torch.on/off/toggle/setLevel: Promise.async schedules the
\* body on a worker and returns at once.  Bookkeeping: an observation window
\* opens with a call issued while nothing is pending and no callback is queued;
\* its calls fill the slots 1, 2, ... in the order they are issued, and the next
\* window opens once all of them have completed.
IssueCall(o, a, f) ==
    /\ (o = "setLevel") \/ (a = None /\ ~f)
    /\ IF clean /\ Cardinality(Used) < MaxCalls
       THEN LET p == Cardinality(Used) + 1 IN
              /\ pc' = [pc EXCEPT ![p] = FirstPc(o)]
              /\ op' = [op EXCEPT ![p] = o]
              /\ arg' = [arg EXCEPT ![p] = a]
              /\ frac' = [frac EXCEPT ![p] = f]
              /\ target' = [target EXCEPT ![p] = TargetOf(o)]
              /\ awaited' = [awaited EXCEPT ![p] = AllDone]
              /\ UNCHANGED <<res, locked, pre, clean, trace>>
       ELSE IF AllDone
       THEN /\ pc' = [p \in Procs |-> IF p = 1 THEN FirstPc(o) ELSE "idle"]
            /\ op' = [p \in Procs |-> IF p = 1 THEN o ELSE "on"]
            /\ arg' = [p \in Procs |-> IF p = 1 THEN a ELSE None]
            /\ frac' = [p \in Procs |-> p = 1 /\ f]
            /\ target' = [p \in Procs |-> IF p = 1 THEN TargetOf(o) ELSE FALSE]
            /\ res' = [p \in Procs |-> ""]
            /\ locked' = [p \in Procs |-> FALSE]
            /\ awaited' = [p \in Procs |-> Settled /\ p = 1]
            /\ pre' = IF Settled THEN Snapshot ELSE NoPre
            /\ clean' = Settled
            /\ trace' = << >>
       ELSE /\ ~clean
            /\ \E q \in Procs : pc[q] = "idle"
            /\ LET p == LeastIdle IN
                 /\ pc' = [pc EXCEPT ![p] = FirstPc(o)]
                 /\ op' = [op EXCEPT ![p] = o]
                 /\ arg' = [arg EXCEPT ![p] = a]
                 /\ frac' = [frac EXCEPT ![p] = f]
                 /\ target' = [target EXCEPT ![p] = TargetOf(o)]
            /\ UNCHANGED <<res, locked, awaited, pre, clean, trace>>
    /\ UNCHANGED <<cfg, stTick, caught, normalized, appVars>>
    /\ UNCHANGED sysVars

\* a call with a whole-numbered argument
Issue(o, a) == IssueCall(o, a, FALSE)

\* the call returns: its promise resolves (r = "ok") or rejects with r;
\* lk: it returns without having released the configuration lock
FinishWith(p, r, lk) ==
    /\ target' = [target EXCEPT ![p] = FALSE]
    /\ IF clean
       THEN /\ pc' = [pc EXCEPT ![p] = "done"]
            /\ res' = [res EXCEPT ![p] = r]
            /\ locked' = [locked EXCEPT ![p] = lk]
            /\ UNCHANGED <<op, arg, frac, awaited>>
       ELSE /\ pc' = [pc EXCEPT ![p] = "idle"]
            /\ res' = [res EXCEPT ![p] = ""]
            /\ locked' = [locked EXCEPT ![p] = FALSE]
            /\ op' = [op EXCEPT ![p] = "on"]
            /\ arg' = [arg EXCEPT ![p] = None]
            /\ frac' = [frac EXCEPT ![p] = FALSE]
            /\ awaited' = [awaited EXCEPT ![p] = FALSE]

Finish(p, r) == FinishWith(p, r, FALSE)

\* the call goes on to its next step
Continue(p, next, lk) ==
    /\ pc' = [pc EXCEPT ![p] = next]
    /\ locked' = [locked EXCEPT ![p] = lk]
    /\ UNCHANGED <<op, arg, frac, target, res, awaited>>

\* toggle: the argument expression !isTorchOn, evaluated before setTorchMode runs
ToggleRead(p) ==
    /\ pc[p] = "start"
    /\ op[p] = "toggle"
    /\ target' = [target EXCEPT ![p] = ~isTorchOn]
    /\ pc' = [pc EXCEPT ![p] = "check"]
    /\ UNCHANGED <<op, arg, frac, res, locked, awaited, cfg, caught, normalized, appVars>>
    /\ UNCHANGED sysVars
    /\ UNCHANGED obsVars

(* --------------------- Android: the torch hardware --------------------- *)

\* the TorchCallback was registered (registerTorchCallback exists from API 23)
Registered == cfg.manager /\ cfg.sdk >= MIN_API_LEVEL /\ ~unregistered

\* an invocation of the TorchCallback; own: its cameraId argument is the id
\* ensureCameraId selected
ModeNote(en) == [k |-> "mode", on |-> en, lvl |-> None, own |-> TRUE]
StrengthNote(l) == [k |-> "level", on |-> FALSE, lvl |-> l, own |-> TRUE]

Notify(notes) ==
    /\ Len(queue) + Len(notes) <= MaxQueue
    /\ queue' = IF Registered THEN queue \o notes ELSE queue

\* CameraManager.setTorchMode(id, en): the platform announces the torch mode when
\* it changes; switching off resets the strength to the default level.
HwSetTorchMode(en) ==
    /\ hwOn' = en
    /\ hwLevel' = IF en THEN hwLevel ELSE HwDefaultLevel
    /\ Notify(IF hwOn = en THEN << >> ELSE << ModeNote(en) >>)

\* CameraManager.turnOnTorchWithStrengthLevel(id, l): torch on at strength l;
\* the mode is announced if it changed, then the strength if it changed.
HwTurnOnWithStrengthLevel(l) ==
    /\ hwOn' = TRUE
    /\ hwLevel' = l
    /\ Notify((IF hwOn THEN << >> ELSE << ModeNote(TRUE) >>)
              \o (IF hwLevel = l THEN << >> ELSE << StrengthNote(l) >>))

(* ------------------ Android: on / off / toggle / setLevel -------------- *)

\* ensureCameraId: a cached id is kept; otherwise the first back camera with a
\* flash, else the first camera of the list, else null
EnsuredCameraId == cameraId \/ (cfg.manager /\ cfg.cameras # "none")

\* characteristics.get(FLASH_INFO_STRENGTH_MAXIMUM_LEVEL) ?: 1
CharacteristicsMaxLevel == IF cfg.cameras = "flash" THEN cfg.maxLevel ELSE 1

\* setTorchMode(enable) up to the hardware call
AndroidSetTorchModeCheck(p) ==
    /\ Android
    /\ pc[p] = "check"
    /\ op[p] \in {"on", "off", "toggle"}
    /\ IF ~cfg.manager
       THEN Finish(p, "CameraServiceUnavailable") /\ UNCHANGED cameraId
       ELSE IF cfg.sdk < MIN_API_LEVEL
       THEN Finish(p, "ApiLevelTooLow") /\ UNCHANGED cameraId
       ELSE /\ cameraId' = EnsuredCameraId
            /\ IF ~EnsuredCameraId
               THEN Finish(p, "NoFlashAvailable")
               ELSE IF isTorchOn = target[p]
               THEN Finish(p, "ok")
               ELSE Continue(p, "incall", FALSE)
    /\ UNCHANGED <<cfg, caught, normalized, appVars>>
    /\ UNCHANGED <<isTorchOn, previousLevel, currentLevel, hwOn, hwLevel, queue>>
    /\ UNCHANGED obsVars

\* manager.setTorchMode(id, enable) returns or throws
AndroidSetTorchModeReturn(p) ==
    /\ Android
    /\ pc[p] = "incall"
    /\ op[p] \in {"on", "off", "toggle"}
    /\ \/ /\ cfg.cameras = "flash"
          /\ HwSetTorchMode(target[p])
          /\ Finish(p, "ok")
       \/ /\ Finish(p, "AccessFailed")
          /\ UNCHANGED <<hwOn, hwLevel, queue>>
    /\ UNCHANGED <<cfg, caught, normalized, appVars>>
    /\ UNCHANGED <<isTorchOn, previousLevel, currentLevel, cameraId>>
    /\ UNCHANGED obsVars

\* a support test that lets maxLevel = 1 through: the variant of
\* BrightnessUnsupported against which C16 is measured
BrightnessUnsupportedLax(maxLevel) == maxLevel < 1

\* if (maxLevel <= 1): the device does not support brightness control
BrightnessUnsupported(maxLevel) == maxLevel <= 1

\* setLevel(level) up to the hardware call
AndroidSetLevelCheck(p) ==
    /\ Android
    /\ pc[p] = "check"
    /\ op[p] = "setLevel"
    /\ IF cfg.sdk < TIRAMISU
       THEN Finish(p, "ApiLevelTooLow") /\ UNCHANGED cameraId
       ELSE IF ~cfg.manager
       THEN Finish(p, "CameraServiceUnavailable") /\ UNCHANGED cameraId
       ELSE /\ cameraId' = EnsuredCameraId
            /\ IF ~EnsuredCameraId
               THEN Finish(p, "NoFlashAvailable")
               ELSE IF BrightnessUnsupported(CharacteristicsMaxLevel)
               THEN Finish(p, "BrightnessControlNotSupported")
               ELSE IF OutOfRange(p, CharacteristicsMaxLevel)
               THEN Finish(p, "IllegalArgumentException")
               ELSE Continue(p, "incall", FALSE)
    /\ UNCHANGED <<cfg, caught, normalized, appVars>>
    /\ UNCHANGED <<isTorchOn, previousLevel, currentLevel, hwOn, hwLevel, queue>>
    /\ UNCHANGED obsVars

\* a hardware call that takes the level and then throws: the variant of
\* AndroidSetLevelReturn against which C35 is measured
AndroidSetLevelReturnApplied(p) ==
    /\ Android
    /\ pc[p] = "incall"
    /\ op[p] = "setLevel"
    /\ \/ /\ HwTurnOnWithStrengthLevel(arg[p])
          /\ Finish(p, "ok")
       \/ /\ HwTurnOnWithStrengthLevel(arg[p])
          /\ Finish(p, "TorchException.AccessFailed")
    /\ UNCHANGED <<cfg, caught, normalized, appVars>>
    /\ UNCHANGED <<isTorchOn, previousLevel, currentLevel, cameraId>>
    /\ UNCHANGED obsVars

\* manager.turnOnTorchWithStrengthLevel(id, level.toInt()) returns or throws
AndroidSetLevelReturn(p) ==
    /\ Android
    /\ pc[p] = "incall"
    /\ op[p] = "setLevel"
    /\ \/ /\ HwTurnOnWithStrengthLevel(arg[p])
          /\ Finish(p, "ok")
       \/ /\ Finish(p, "TorchException.AccessFailed")
          /\ UNCHANGED <<hwOn, hwLevel, queue>>
    /\ UNCHANGED <<cfg, caught, normalized, appVars>>
    /\ UNCHANGED <<isTorchOn, previousLevel, currentLevel, cameraId>>
    /\ UNCHANGED obsVars

(* ----------------------- Android: TorchCallback ------------------------ *)

\* a callback that never reports the null level on power-off: the variant of
\* OffLevelEvents against which C4 is measured
OffLevelEventsSilent(enabled, prev) == << >>

\* the level part of onTorchModeChanged: null is reported once on power-off
OffLevelEvents(enabled, prev) ==
    IF ~enabled /\ prev # None THEN << LevelEv(None, prev) >> ELSE << >>

onTorchModeChanged(enabled) ==
    /\ isTorchOn' = enabled
    /\ previousLevel' = IF enabled THEN previousLevel ELSE None
    /\ Emit(<< StateEv(enabled, isTorchOn) >> \o OffLevelEvents(enabled, previousLevel))

onTorchStrengthLevelChanged(newStrengthLevel) ==
    /\ UNCHANGED isTorchOn
    /\ IF cfg.sdk >= TIRAMISU
       THEN /\ previousLevel' = newStrengthLevel
            /\ Emit(IF previousLevel # newStrengthLevel
                    THEN << LevelEv(newStrengthLevel, previousLevel) >>
                    ELSE << >>)
       ELSE UNCHANGED previousLevel /\ Emit(<< >>)

\* the handler thread runs the next queued TorchCallback invocation
TorchCallback ==
    /\ Android
    /\ queue # << >>
    /\ queue' = Tail(queue)
    /\ IF Head(queue).k = "mode"
       THEN onTorchModeChanged(Head(queue).on)
       ELSE onTorchStrengthLevelChanged(Head(queue).lvl)
    /\ UNCHANGED <<pre, clean>>
    /\ UNCHANGED <<currentLevel, cameraId, hwOn, hwLevel, cfg, caught, normalized, appVars>>
    /\ UNCHANGED callVars

(* ------------------------------- iOS ----------------------------------- *)

Min(a, b) == IF a <= b THEN a ELSE b
Max(a, b) == IF a >= b THEN a ELSE b

\* Float(level / maxTorchLevel), level and result in thousandths
Normalized(level) == level \div maxTorchLevel

\* round(currentLevel), currentLevel in thousandths of a level
RoundLevel(x) == (x + 500) \div 1000

\* max(0.1, min(maxAvailable, torchLevel)), maxAvailable = min(maxAvailableTorchLevel, 1.0)
ClampedLevel(torchLevel) ==
    Max(IosMinIntensity, Min(Min(cfg.thermal, IosFullIntensity), torchLevel))

\* setLevel's range guard, then setTorchMode's guards and lockForConfiguration
IosCheck(p) ==
    /\ Ios
    /\ pc[p] = "check"
    /\ IF op[p] = "setLevel" /\ OutOfRange(p, maxTorchLevel)
       THEN Finish(p, "AccessFailed")
       ELSE IF cfg.cameras # "flash"
       THEN Finish(p, "NoFlashAvailable")
       ELSE \/ Finish(p, "AccessFailed")
            \/ Continue(p, "incall", TRUE)
    /\ UNCHANGED <<cfg, caught, normalized, appVars>>
    /\ UNCHANGED sysVars
    /\ UNCHANGED obsVars

\* inside the configuration lock: setTorchModeOn(level:) or torchMode = .off,
\* then unlockForConfiguration (skipped when setTorchModeOn throws)
IosHardware(p) ==
    /\ Ios
    /\ pc[p] = "incall"
    /\ IF target[p]
       THEN \/ /\ FinishWith(p, "AccessFailed", TRUE)
               /\ UNCHANGED <<hwOn, hwLevel, currentLevel>>
            \/ /\ hwOn' = TRUE
               /\ hwLevel' = ClampedLevel(IF op[p] = "setLevel"
                                          THEN Normalized(LevelArg(p))
                                          ELSE currentLevel \div maxTorchLevel)
               /\ currentLevel' = IF op[p] = "setLevel"
                                  THEN Normalized(LevelArg(p)) * maxTorchLevel
                                  ELSE currentLevel
               /\ Continue(p, "notify", FALSE)
       ELSE /\ hwOn' = FALSE
            /\ hwLevel' = 0
            /\ Continue(p, "notify", FALSE)
            /\ UNCHANGED currentLevel
    /\ UNCHANGED <<cfg, caught, normalized, appVars>>
    /\ UNCHANGED <<isTorchOn, previousLevel, cameraId, queue>>
    /\ UNCHANGED obsVars

\* newLevel = enable ? round(currentLevel) : nil
IosNewLevel(enable) == IF enable THEN RoundLevel(currentLevel) ELSE None

\* a setTorchMode that tells the state listener on every call: the variant of
\* IosStateEvents against which C12 is measured
IosStateEventsAlways(enable) == << StateEv(enable, isTorchOn) >>

\* after the lock is released: wasOn = isTorchOn; isTorchOn = enable; the state
\* listener is told when the two differ
IosStateEvents(enable) ==
    IF isTorchOn # enable THEN << StateEv(enable, isTorchOn) >> ELSE << >>

\* then the level listener is told when round(previousLevel) differs from newLevel
IosLevelEvents(enable) ==
    IF previousLevel # IosNewLevel(enable)
    THEN << LevelEv(IosNewLevel(enable), previousLevel) >>
    ELSE << >>

\* Another Promise.async body may run between the two notifications: nothing
\* in setTorchMode makes them one atomic step.
IosNotify(p) ==
    /\ Ios
    /\ pc[p] = "notify"
    /\ isTorchOn' = target[p]
    /\ Emit(IosStateEvents(target[p]))
    /\ Continue(p, "notifyLevel", FALSE)
    /\ UNCHANGED <<cfg, caught, normalized, appVars>>
    /\ UNCHANGED <<previousLevel, currentLevel, cameraId, hwOn, hwLevel, queue>>
    /\ UNCHANGED <<pre, clean>>

IosNotifyLevel(p) ==
    /\ Ios
    /\ pc[p] = "notifyLevel"
    /\ previousLevel' = IosNewLevel(target[p])
    /\ Emit(IosLevelEvents(target[p]))
    /\ Finish(p, "ok")
    /\ UNCHANGED <<cfg, caught, normalized, appVars>>
    /\ UNCHANGED <<isTorchOn, currentLevel, cameraId, hwOn, hwLevel, queue>>
    /\ UNCHANGED <<pre, clean>>

(* ---------------------------- environment ------------------------------ *)

\* the torch is switched from outside the library (another app, the system UI)
ExternalTorch(en) ==
    /\ cfg.cameras = "flash"
    /\ hwOn # en
    /\ IF Android
       THEN HwSetTorchMode(en)
       ELSE /\ hwOn' = en
            /\ hwLevel' = IF en THEN IosFullIntensity ELSE 0
            /\ UNCHANGED queue
    /\ EndWindow
    /\ UNCHANGED <<isTorchOn, previousLevel, currentLevel, cameraId>>
    /\ UNCHANGED <<stTick, cfg, caught, normalized, appVars>>

\* Android: another client opens and closes the camera.  The torch is forced
\* off while the camera is in use, and when it is released the platform
\* announces the torch mode (off) again, whether or not it was on before.
CameraSession ==
    /\ Android
    /\ cfg.cameras = "flash"
    /\ hwOn' = FALSE
    /\ hwLevel' = HwDefaultLevel
    /\ Notify(<< ModeNote(FALSE) >>)
    /\ EndWindow
    /\ UNCHANGED <<isTorchOn, previousLevel, currentLevel, cameraId>>
    /\ UNCHANGED <<stTick, cfg, caught, normalized, appVars>>

(* ------------------------------- Next ---------------------------------- *)

\* every step but the issuing of a call
Step ==
    \/ \E p \in Procs : ToggleRead(p)
    \/ \E p \in Procs : AndroidSetTorchModeCheck(p)
    \/ \E p \in Procs : AndroidSetTorchModeReturn(p)
    \/ \E p \in Procs : AndroidSetLevelCheck(p)
    \/ \E p \in Procs : AndroidSetLevelReturn(p)
    \/ TorchCallback
    \/ \E p \in Procs : IosCheck(p)
    \/ \E p \in Procs : IosHardware(p)
    \/ \E p \in Procs : IosNotify(p)
    \/ \E p \in Procs : IosNotifyLevel(p)
    \/ \E en \in BOOLEAN : ExternalTorch(en)
    \/ CameraSession

\* calls are issued at any time, also while earlier ones are pending
Next ==
    \/ \E o \in Ops, a \in LevelArgs : Issue(o, a)
    \/ Step

Spec == Init /\ [][Next]_vars

\* a caller that awaits every call before it issues the next one
IssueAwaited(o, a) == AllDone /\ Issue(o, a)

NextSerial ==
    \/ \E o \in Ops, a \in LevelArgs : IssueAwaited(o, a)
    \/ Step

SpecSerial == Init /\ [][NextSerial]_vars

\* the observer stops watching once the window's calls and callbacks are over
CloseWindow ==
    /\ clean
    /\ Settled
    /\ EndWindow
    /\ UNCHANGED <<cfg, stTick, caught, normalized, appVars>>
    /\ UNCHANGED sysVars

\* A caller that lets each call and its callbacks finish before the next, and
\* passes setLevel any number, whole or not.  Every call is watched on its own.
IssueSettled(o, a, f) == ~clean /\ Settled /\ IssueCall(o, a, f)

\* the numbers that caller passes: the small ones, and those around the iOS maximum
AnyLevels == LevelArgs \cup {maxTorchLevel - 1, maxTorchLevel, maxTorchLevel + 1}

NextLevels ==
    \/ \E o \in Ops, a \in AnyLevels, f \in BOOLEAN : IssueSettled(o, a, f)
    \/ CloseWindow
    \/ Step

SpecLevels == Init /\ [][NextLevels]_vars

\* The wrapper's catch block on its own: any value may arrive from the native
\* layer, and Normalize is `throw parseAndNormalizeError(error)`.
InitErrors ==
    /\ cfg = Profile("android", TIRAMISU, TRUE, "flash", HwMaxLevel, IosFullIntensity)
    /\ Constructed
    /\ Hooked
    /\ caught \in ThrownValues
    /\ normalized = NoRecord

Normalize ==
    /\ normalized = NoRecord
    /\ normalized' = parseAndNormalizeError(caught)
    /\ UNCHANGED <<cfg, caught, appVars>>
    /\ UNCHANGED sysVars
    /\ UNCHANGED callVars
    /\ UNCHANGED obsVars

NextErrors == Normalize

SpecErrors == InitErrors /\ [][NextErrors]_vars

(* ------------------- listeners assigned and removed -------------------- *)

\* a setter that ignores undefined: the variant of Assigned against which C24
\* is measured
AssignedKept(slot, callback) == IF callback = "none" THEN slot ELSE callback

\* the setters overwrite the slot: _HybridTorch.onStateChanged = callback
Assigned(slot, callback) == callback

\* Torch.onStateChanged = callback (undefined when callback is "none")
SetOnStateChanged(callback) ==
    /\ onStateChanged' = Assigned(onStateChanged, callback)
    /\ assigned' = [assigned EXCEPT !.state = callback]
    /\ UNCHANGED <<cfg, caught, normalized, onLevelChanged, got, unregistered, auxVars>>
    /\ UNCHANGED sysVars
    /\ UNCHANGED callVars
    /\ UNCHANGED obsVars

\* Torch.onLevelChanged = callback: the slot gets a function that calls
\* callback, or undefined when callback is undefined
SetOnLevelChanged(callback) ==
    /\ onLevelChanged' = Assigned(onLevelChanged, callback)
    /\ assigned' = [assigned EXCEPT !.level = callback]
    /\ UNCHANGED <<cfg, caught, normalized, onStateChanged, got, unregistered, auxVars>>
    /\ UNCHANGED sysVars
    /\ UNCHANGED callVars
    /\ UNCHANGED obsVars

\* after construction no listener is assigned
Unhooked ==
    /\ onStateChanged = "none"
    /\ onLevelChanged = "none"
    /\ assigned = [state |-> "none", level |-> "none"]
    /\ mounted = << >>

InitListeners ==
    /\ cfg \in Profiles
    /\ Constructed
    /\ Unhooked
    /\ caught = NothingCaught
    /\ normalized = NoRecord

\* a caller that lets each call and its callbacks finish before the next; the
\* calls are watched two at a time
IssuePaired(o, a) ==
    /\ Settled
    /\ ~clean \/ Cardinality(Used) = 1
    /\ Issue(o, a)

NextListeners ==
    \/ \E o \in {"setLevel", "off"}, a \in LevelArgs : IssuePaired(o, a)
    \/ CloseWindow
    \/ \E l \in Listeners : SetOnStateChanged(l)
    \/ \E l \in Listeners : SetOnLevelChanged(l)
    \/ \E p \in Procs : AndroidSetTorchModeCheck(p)
    \/ \E p \in Procs : AndroidSetTorchModeReturn(p)
    \/ \E p \in Procs : AndroidSetLevelCheck(p)
    \/ \E p \in Procs : AndroidSetLevelReturn(p)
    \/ TorchCallback
    \/ \E p \in Procs : IosCheck(p)
    \/ \E p \in Procs : IosHardware(p)
    \/ \E p \in Procs : IosNotify(p)
    \/ \E p \in Procs : IosNotifyLevel(p)

SpecListeners == InitListeners /\ [][NextListeners]_vars

(* ----------------------------- getMaxLevel ----------------------------- *)

\* a getMaxLevel that reports one level more than the characteristics say:
\* the variant of AndroidMaxLevel against which C22 is measured
AndroidMaxLevelAbove ==
    IF cfg.sdk < TIRAMISU \/ ~EnsuredCameraId \/ ~cfg.manager
    THEN None
    ELSE (CharacteristicsMaxLevel + 1) * 1000

\* Android getMaxLevel: null below API 33, without a camera id, without the
\* camera service and when maxLevel <= 1; else maxLevel.toDouble()
AndroidMaxLevel ==
    IF cfg.sdk < TIRAMISU \/ ~EnsuredCameraId \/ ~cfg.manager
    THEN None
    ELSE IF CharacteristicsMaxLevel <= 1
    THEN None
    ELSE CharacteristicsMaxLevel * 1000

\* iOS getMaxLevel: nil without a device with a torch; with dynamic == true
\* Double(min(maxAvailableTorchLevel, 1.0) * Float(maxTorchLevel)); else
\* maxTorchLevel
IosMaxLevel(dynamic) ==
    IF cfg.cameras # "flash"
    THEN None
    ELSE IF dynamic
    THEN Min(cfg.thermal, IosFullIntensity) * maxTorchLevel
    ELSE maxTorchLevel * 1000

\* Torch.getMaxLevel(dynamic) hands the native value to the caller as it is;
\* on Android the native side first runs ensureCameraId().
getMaxLevel(dynamic) ==
    /\ got' = [called |-> TRUE, dynamic |-> dynamic,
               value |-> IF Android THEN AndroidMaxLevel ELSE IosMaxLevel(dynamic)]
    /\ cameraId' = IF Android /\ cfg.sdk >= TIRAMISU THEN EnsuredCameraId ELSE cameraId
    /\ UNCHANGED <<cfg, caught, normalized, onStateChanged, onLevelChanged,
                   assigned, unregistered, auxVars>>
    /\ UNCHANGED <<isTorchOn, previousLevel, currentLevel, hwOn, hwLevel, queue>>
    /\ UNCHANGED callVars
    /\ UNCHANGED obsVars

\* an iPhone whose thermal ceiling lies between two tenths
IosWarm == IosThrottled + IosMinIntensity \div 2

WarmProfiles == { Profile("ios", TIRAMISU, TRUE, "flash", maxTorchLevel, IosWarm) }

InitMaxLevel ==
    /\ cfg \in Profiles \cup WarmProfiles
    /\ Constructed
    /\ Hooked
    /\ caught = NothingCaught
    /\ normalized = NoRecord

NextMaxLevel ==
    \/ \E o \in Ops, a \in AnyLevels, f \in BOOLEAN : IssueSettled(o, a, f)
    \/ CloseWindow
    \/ \E d \in BOOLEAN : getMaxLevel(d)
    \/ Step

SpecMaxLevel == InitMaxLevel /\ [][NextMaxLevel]_vars

(* ------------------------------- dispose ------------------------------- *)

\* Android dispose: if (isTorchOn && SDK_INT >= MIN_API_LEVEL) cameraId?.let { ... }
AndroidDisposeCheck(p) ==
    /\ Android
    /\ pc[p] = "dcheck"
    /\ IF isTorchOn /\ cfg.sdk >= MIN_API_LEVEL /\ cameraId
       THEN Continue(p, "dcall", FALSE)
       ELSE Continue(p, "teardown", FALSE)
    /\ UNCHANGED <<cfg, caught, normalized, appVars>>
    /\ UNCHANGED sysVars
    /\ UNCHANGED obsVars

\* cameraManager?.setTorchMode(id, false); isTorchOn = false.  An exception
\* of the hardware call lands in the outer catch, which logs it: the rest of
\* the try block is skipped and dispose returns.
AndroidDisposeCall(p) ==
    /\ Android
    /\ pc[p] = "dcall"
    /\ \/ /\ cfg.cameras = "flash"
          /\ HwSetTorchMode(FALSE)
          /\ isTorchOn' = FALSE
          /\ Continue(p, "teardown", FALSE)
       \/ /\ Finish(p, "logged")
          /\ UNCHANGED <<isTorchOn, hwOn, hwLevel, queue>>
    /\ UNCHANGED <<cfg, caught, normalized, appVars>>
    /\ UNCHANGED <<previousLevel, currentLevel, cameraId>>
    /\ UNCHANGED obsVars

\* unregisterTorchCallback(torchCallback); cameraId = null; previousLevel = null
AndroidDisposeTeardown(p) ==
    /\ Android
    /\ pc[p] = "teardown"
    /\ unregistered' = TRUE
    /\ cameraId' = FALSE
    /\ previousLevel' = None
    /\ Finish(p, "ok")
    /\ UNCHANGED <<cfg, caught, normalized, onStateChanged, onLevelChanged, assigned, got,
                   auxVars>>
    /\ UNCHANGED <<isTorchOn, currentLevel, hwOn, hwLevel, queue>>
    /\ UNCHANGED obsVars

\* iOS dispose: do { if isTorchOn { try setTorchMode(false) }; previousLevel = nil }
\* catch { print }.  setTorchMode's guards and lockForConfiguration may throw:
\* the catch prints, and previousLevel = nil is skipped.
IosDisposeCheck(p) ==
    /\ Ios
    /\ pc[p] = "dcheck"
    /\ IF ~isTorchOn
       THEN previousLevel' = None /\ Finish(p, "ok")
       ELSE /\ UNCHANGED previousLevel
            /\ IF cfg.cameras # "flash"
               THEN Finish(p, "logged")
               ELSE \/ Finish(p, "logged")
                    \/ Continue(p, "incall", TRUE)
    /\ UNCHANGED <<cfg, caught, normalized, appVars>>
    /\ UNCHANGED <<isTorchOn, currentLevel, cameraId, hwOn, hwLevel, queue>>
    /\ UNCHANGED obsVars

\* dispose is a synchronous call: the JS thread makes no other call meanwhile
DisposeRunning == \E p \in Procs : op[p] = "dispose" /\ pc[p] \notin {"idle", "done"}

\* dispose() may be called while an earlier call is still pending
IssueDispose == ~DisposeRunning /\ Issue("dispose", None)

\* the other calls are awaited one by one
IssueBesideDispose(o, a) == ~DisposeRunning /\ IssueAwaited(o, a)

NextDispose ==
    \/ \E o \in Ops, a \in LevelArgs : IssueBesideDispose(o, a)
    \/ IssueDispose
    \/ \E p \in Procs : AndroidDisposeCheck(p)
    \/ \E p \in Procs : AndroidDisposeCall(p)
    \/ \E p \in Procs : AndroidDisposeTeardown(p)
    \/ \E p \in Procs : IosDisposeCheck(p)
    \/ Step

SpecDispose == Init /\ [][NextDispose]_vars

(* ------------------- a level to the native scale and back -------------- *)

\* Float(x) is x up to the precision of a Float: at most one thousandth off
FloatErrors == {0 - 1, 0, 1}

\* level.toInt(), level in thousandths
ToInt(level) == level \div 1000

\* newStrengthLevel.toDouble(), in thousandths
ToDouble(strength) == strength * 1000

\* a conversion back that cuts the fraction off instead of rounding: the
\* variant of FromFloat against which C32 is measured
FromFloatCut(float) == (float * maxTorchLevel) \div 1000

\* currentLevel = Double(level) * maxTorchLevel, told as round(currentLevel)
FromFloat(float) == RoundLevel(float * maxTorchLevel)

\* the levels setLevel accepts on the device
DeviceLevels == 1 .. (IF Android THEN CharacteristicsMaxLevel ELSE maxTorchLevel)

InitConvert ==
    /\ cfg \in {c \in Profiles : c.cameras = "flash" /\ c.sdk >= TIRAMISU}
    /\ Constructed
    /\ Hooked
    /\ caught = NothingCaught
    /\ normalized = NoRecord

\* setLevel(level) is called with a whole level of the device's range
TakeLevel(l, e) ==
    /\ conv.stage = "none"
    /\ l \in DeviceLevels
    /\ Android => e = 0
    /\ conv' = [conv EXCEPT !.scale = IF Android THEN "discrete" ELSE "continuous",
                            !.stage = "taken", !.level = l * 1000, !.err = e]
    /\ UNCHANGED <<cfg, caught, normalized, onStateChanged, onLevelChanged, assigned,
                   got, unregistered, raised, hook, mounted, otherOn>>
    /\ UNCHANGED sysVars
    /\ UNCHANGED callVars
    /\ UNCHANGED obsVars

\* Android: turnOnTorchWithStrengthLevel(id, level.toInt()); iOS: normalizedLevel =
\* Float(level / maxTorchLevel), setTorchModeOn(level: clampedLevel)
ToNative ==
    /\ conv.stage = "taken"
    /\ conv' = [conv EXCEPT
                  !.stage = "native",
                  !.float = IF Android THEN None ELSE Normalized(conv.level) + conv.err,
                  !.native = IF Android THEN ToInt(conv.level)
                             ELSE ClampedLevel(Normalized(conv.level) + conv.err)]
    /\ UNCHANGED <<cfg, caught, normalized, onStateChanged, onLevelChanged, assigned,
                   got, unregistered, raised, hook, mounted, otherOn>>
    /\ UNCHANGED sysVars
    /\ UNCHANGED callVars
    /\ UNCHANGED obsVars

\* Android: onTorchStrengthLevelChanged tells newStrengthLevel.toDouble();
\* iOS: the level told is round(currentLevel)
FromNative ==
    /\ conv.stage = "native"
    /\ conv' = [conv EXCEPT
                  !.stage = "back",
                  !.back = IF Android THEN ToDouble(conv.native)
                           ELSE FromFloat(conv.float) * 1000]
    /\ UNCHANGED <<cfg, caught, normalized, onStateChanged, onLevelChanged, assigned,
                   got, unregistered, raised, hook, mounted, otherOn>>
    /\ UNCHANGED sysVars
    /\ UNCHANGED callVars
    /\ UNCHANGED obsVars

NextConvert ==
    \/ \E l \in 1 .. maxTorchLevel, e \in FloatErrors : TakeLevel(l, e)
    \/ ToNative
    \/ FromNative

SpecConvert == InitConvert /\ [][NextConvert]_vars

(* ------------------- Android: a second flash unit ---------------------- *)

\* TorchCallback invocations whose cameraId argument is another unit's id
OtherModeNote(en) == [ModeNote(en) EXCEPT !.own = FALSE]
OtherStrengthNote(l) == [StrengthNote(l) EXCEPT !.own = FALSE]

\* another client switches the torch of the other flash unit: the platform
\* calls every registered TorchCallback with that unit's id.  The observation
\* window ends, as with every event from outside.
OtherTorch(en) ==
    /\ Android
    /\ Registered
    /\ cfg.cameras = "flash"
    /\ otherOn # en
    /\ otherOn' = en
    /\ Notify(<< OtherModeNote(en) >>)
    /\ EndWindow
    /\ UNCHANGED <<stTick, cfg, caught, normalized, onStateChanged, onLevelChanged,
                   assigned, got, unregistered, raised, conv, hook, mounted>>
    /\ UNCHANGED <<isTorchOn, previousLevel, currentLevel, cameraId, hwOn, hwLevel>>

\* another client sets the strength of the other unit's burning torch to l
OtherStrength(l) ==
    /\ Android
    /\ Registered
    /\ cfg.sdk >= TIRAMISU
    /\ otherOn
    /\ Notify(<< OtherStrengthNote(l) >>)
    /\ EndWindow
    /\ UNCHANGED <<stTick, cfg, caught, normalized, appVars>>
    /\ UNCHANGED <<isTorchOn, previousLevel, currentLevel, cameraId, hwOn, hwLevel>>

InitOther == Init /\ Android

\* the application's own calls, one at a time, beside the other unit's events
NextOther ==
    \/ \E o \in Ops, a \in LevelArgs : IssueSettled(o, a, FALSE)
    \/ CloseWindow
    \/ \E p \in Procs : ToggleRead(p)
    \/ \E p \in Procs : AndroidSetTorchModeCheck(p)
    \/ \E p \in Procs : AndroidSetTorchModeReturn(p)
    \/ \E p \in Procs : AndroidSetLevelCheck(p)
    \/ \E p \in Procs : AndroidSetLevelReturn(p)
    \/ TorchCallback
    \/ \E en \in BOOLEAN : OtherTorch(en)
    \/ \E l \in LevelArgs : OtherStrength(l)

SpecOther == InitOther /\ [][NextOther]_vars

(* ---------------- components mounting and unmounting ------------------- *)

Components == Listeners \ {"none"}

IsMounted(l) == \E i \in 1 .. Len(mounted) : mounted[i] = l

MountFrame ==
    /\ UNCHANGED <<cfg, caught, normalized, got, unregistered, raised, conv,
                   hook, otherOn>>
    /\ UNCHANGED sysVars
    /\ UNCHANGED callVars
    /\ UNCHANGED obsVars

\* component l mounts: its two effects run, each assigning a listener that
\* calls l's options
Mount(l) ==
    /\ ~IsMounted(l)
    /\ onStateChanged' = Assigned(onStateChanged, l)
    /\ onLevelChanged' = Assigned(onLevelChanged, l)
    /\ assigned' = [state |-> l, level |-> l]
    /\ mounted' = Append(mounted, l)
    /\ MountFrame

\* component l unmounts: the cleanup of its two effects runs,
\* Torch.onStateChanged = undefined and Torch.onLevelChanged = undefined
Unmount(l) ==
    /\ IsMounted(l)
    /\ onStateChanged' = Assigned(onStateChanged, "none")
    /\ onLevelChanged' = Assigned(onLevelChanged, "none")
    /\ assigned' = [state |-> "none", level |-> "none"]
    /\ mounted' = SelectSeq(mounted, LAMBDA m : m # l)
    /\ MountFrame

\* components come and go while the application makes its calls one at a time
NextMount ==
    \/ \E l \in Components : Mount(l)
    \/ \E l \in Components : Unmount(l)
    \/ \E o \in Ops, a \in LevelArgs : IssueSettled(o, a, FALSE)
    \/ CloseWindow
    \/ Step

SpecMount == Init /\ [][NextMount]_vars

(* -------------------- an error from native code to JS ------------------- *)

\* the kinds handleTorchException (Android) and TorchError.code (iOS) put on
\* the wire
NativeKinds ==
    IF Android
    THEN {"ApiLevelTooLow", "CameraServiceUnavailable", "NoFlashAvailable",
          "BrightnessControlNotSupported", "AccessFailed"}
    ELSE {"NoFlashAvailable", "AccessFailed"}

\* message texts: the empty one (e.message ?: ""), a plain one, one with
\* braces in it, one with double quotes in it (such as the words "type" and
\* "message" quoted)
NativeMessages == {"empty", "plain", "braces", "quotes"}

\* a helper that files the kind under "type": the variant of
\* createTorchErrorJson against which C33 is measured
createTorchErrorJsonTyped(code, message) ==
    Thrown(TRUE, "object", FALSE, TRUE, "absent", message)

\* Error(JSONObject().put("code", code).put("message", message).toString()):
\* the Error's message is a JSON object and nothing else, with the members
\* "code" and "message"; the serializer escapes the quotes message contains,
\* so the text holds no "type" member whatever the message says
createTorchErrorJson(code, message) ==
    Thrown(TRUE, "object", FALSE, FALSE, code, message)

\* TorchError.toJSON(): JSONSerialization of ["code": code, "message": message]
toJSON(code, message) ==
    Thrown(TRUE, "object", FALSE, FALSE, code, message)

\* a native operation fails with kind k and message m; the wrapper's catch
\* block receives the Error
Raise(k, m) ==
    /\ caught = NothingCaught
    /\ k \in NativeKinds
    /\ raised' = [code |-> k, message |-> m]
    /\ caught' = IF Android THEN createTorchErrorJson(k, m) ELSE toJSON(k, m)
    /\ UNCHANGED <<cfg, normalized, onStateChanged, onLevelChanged, assigned,
                   got, unregistered, conv, hook, mounted, otherOn>>
    /\ UNCHANGED sysVars
    /\ UNCHANGED callVars
    /\ UNCHANGED obsVars

\* throw parseAndNormalizeError(error)
Receive == caught # NothingCaught /\ Normalize

NextTransport ==
    \/ \E k \in TorchExceptionType, m \in NativeMessages : Raise(k, m)
    \/ Receive

SpecTransport == Init /\ [][NextTransport]_vars

(* ------------------------- the hook's methods -------------------------- *)

HookMethods == {"on", "off", "toggle", "setLevel", "getMaxLevel"}

\* a catch block that reports and throws again: the variant of HookCaught
\* against which C34 is measured
HookRethrown(h, err) ==
    [h EXCEPT !.told = IF h.handler THEN Append(@, err) ELSE @,
              !.outcome = "rejected"]

\* catch (err) { options?.onError?.(err as TorchError) }, after which the
\* async methods fall off their end and getMaxLevel returns null
HookCaught(h, err) ==
    [h EXCEPT !.told = IF h.handler THEN Append(@, err) ELSE @,
              !.outcome = IF h.method = "getMaxLevel" THEN "null" ELSE "resolved"]

\* the body of try completed: the async methods resolve, getMaxLevel returns
\* what Torch.getMaxLevel returned
HookPassed(h) ==
    [h EXCEPT !.outcome = IF h.method = "getMaxLevel" THEN "value" ELSE "resolved"]

HookFrame ==
    /\ UNCHANGED <<cfg, caught, normalized, onStateChanged, onLevelChanged,
                   assigned, got, unregistered, raised, conv, mounted, otherOn>>
    /\ UNCHANGED sysVars
    /\ UNCHANGED callVars
    /\ UNCHANGED obsVars

\* a component calls method m of a hook that was given an onError (handler)
\* or none
HookCall(m, handler) ==
    /\ hook.method = "none"
    /\ hook' = [method |-> m, handler |-> handler, outcome |-> "pending", told |-> << >>]
    /\ HookFrame

\* the wrapper's catch block: throw parseAndNormalizeError(error)
WrapperCatch ==
    /\ hook.outcome = "pending"
    /\ caught # NothingCaught
    /\ Normalize

\* the hook's catch block receives what the wrapper threw
HookCatch ==
    /\ hook.outcome = "pending"
    /\ normalized # NoRecord
    /\ hook' = HookCaught(hook, normalized)
    /\ HookFrame

\* the wrapper's method returned normally
HookReturn ==
    /\ hook.outcome = "pending"
    /\ caught = NothingCaught
    /\ hook' = HookPassed(hook)
    /\ HookFrame

\* the native method either rejects with one of the values the wrapper can
\* catch or completes
InitHook ==
    /\ cfg = Profile("android", TIRAMISU, TRUE, "flash", HwMaxLevel, IosFullIntensity)
    /\ Constructed
    /\ Hooked
    /\ caught \in ThrownValues \cup {NothingCaught}
    /\ normalized = NoRecord

NextHook ==
    \/ \E m \in HookMethods, handler \in BOOLEAN : HookCall(m, handler)
    \/ WrapperCatch
    \/ HookCatch
    \/ HookReturn

SpecHook == InitHook /\ [][NextHook]_vars

(* ------------------------------ typing --------------------------------- *)

TypeOK ==
    /\ cfg \in Profiles \cup WarmProfiles
    /\ onStateChanged \in Listeners
    /\ onLevelChanged \in Listeners
    /\ got.called \in BOOLEAN
    /\ got.value \in 0 .. maxTorchLevel * 1000
    /\ unregistered \in BOOLEAN
    /\ isTorchOn \in BOOLEAN
    /\ hwOn \in BOOLEAN
    /\ previousLevel \in 0 .. maxTorchLevel
    /\ Len(queue) <= MaxQueue
    /\ \A p \in Procs : pc[p] \in {"idle", "start", "check", "incall", "notify", "notifyLevel", "done",
                                  "dcheck", "dcall", "teardown"}
    /\ stTick \in BOOLEAN
    /\ \A p \in Procs : frac[p] \in BOOLEAN /\ (frac[p] => op[p] = "setLevel")
    /\ caught \in ThrownValues \cup {NothingCaught}
                  \cup {createTorchErrorJson(k, m) :
                            k \in TorchExceptionType, m \in NativeMessages}
    /\ normalized.code \in PayloadCodes \cup {""}
    /\ otherOn \in BOOLEAN
    /\ Len(mounted) <= Cardinality(Components)
    /\ Len(hook.told) <= 1

(* ------------------------ vocabulary of the claims --------------------- *)

\* number of calls issued in the observation window (they fill slots 1 .. Issued)
Issued == Cardinality(Used)

\* call p has completed and its promise resolved
DoneOk(p) == pc[p] = "done" /\ res[p] = "ok"

\* power state and level agree: off exactly when the level is none
Coupled(on, lvl) == (on = FALSE) <=> (lvl = None)

\* The window opened in a state Off or On(l), the controller agreeing with the
\* torch, and since then nothing but the window's own calls has acted on the
\* torch (clean: no outside switch, no camera session).
FromCoupled == clean /\ Coupled(pre.isOn, pre.level) /\ pre.hwOn = pre.isOn

FromOff == clean /\ ~pre.isOn /\ pre.level = None /\ ~pre.hwOn

\* every call of the window has completed successfully and every callback has run
AllOkAtRest == Settled /\ \A p \in Used : DoneOk(p)

LevelEvents(tr) == SelectSeq(tr, IsLevelEv)

\* the level the torch is burning at, on the public scale (none when off)
TorchLevel ==
    IF ~hwOn THEN None
    ELSE IF Android THEN hwLevel
    ELSE RoundLevel(currentLevel)

\* what a listener is told, without the bookkeeping fields
Told(e) == <<e.k, e.on, e.lvl>>

(* ------------------------------- claims -------------------------------- *)

\* C1: whenever no operation or callback is running (and none is queued), the
\* torch is off exactly when the last reported level (previousLevel) is none -
\* after any calls issued from a state in which that held.
C1_StateLevelCoupling ==
    (FromCoupled /\ Settled) => Coupled(isTorchOn, previousLevel)

\* C2: stateChanged is delivered in a step exactly when that step changes the
\* controller's power state (so a delivery never repeats the state held before).
C2_StateChangedIffChanged ==
    [][(stTick' # stTick) <=> (isTorchOn' # isTorchOn)]_vars

\* C3: levelChanged is delivered exactly when the new level differs from the
\* last one delivered: (a) no delivery repeats the level delivered before it,
\* (b) at rest the last delivered level is the level the torch is at, and
\* (c) setLevel(L) twice in a row, from a level other than L, delivers
\* levelChanged(L) exactly once.
C3_LevelChangedIffChanged ==
    /\ \A i \in 1 .. Len(trace) : IsLevelEv(trace[i]) => trace[i].lvl # trace[i].wasLvl
    /\ (FromCoupled /\ AllOkAtRest) => previousLevel = TorchLevel
    /\ ( /\ FromCoupled /\ AllOkAtRest
         /\ Issued = 2 /\ awaited[2]
         /\ op[1] = "setLevel" /\ op[2] = "setLevel"
         /\ arg[1] = arg[2] /\ arg[1] # pre.level )
       => Len(SelectSeq(LevelEvents(trace), LAMBDA e : e.lvl = arg[1])) = 1

\* the case of C4: off() alone, completed, the window having opened in On(L)
C4_Case ==
    /\ FromCoupled /\ pre.isOn
    /\ Issued = 1 /\ op[1] = "off"
    /\ AllOkAtRest

\* C4: off() on a torch that is On(L) delivers stateChanged(false) and then
\* levelChanged(none), in that order, each exactly once.
C4_OffClearsLevel ==
    C4_Case => /\ Len(trace) = 2
               /\ Told(trace[1]) = <<"state", FALSE, None>>
               /\ Told(trace[2]) = <<"level", FALSE, None>>
               /\ trace[2].wasLvl = pre.level

\* C4 happens on the platform whose power-off notification carries no level
C4_Witness == C4_Case /\ Android /\ pre.level = HwMaxLevel

\* C5: a successful setLevel(L), 1 <= L <= maxLevel, issued from Off or On(l),
\* leaves the torch on at level L: isOn holds and the reported level is L, with
\* stateChanged(true) delivered if it was off and levelChanged(L) if L is new.
C5_SetLevelReachesLevel ==
    ( /\ FromCoupled /\ AllOkAtRest
      /\ Issued = 1 /\ op[1] = "setLevel" )
    => /\ hwOn /\ isTorchOn
       /\ previousLevel = arg[1]
       /\ ~pre.isOn => \E i \in 1 .. Len(trace) : Told(trace[i]) = <<"state", TRUE, None>>
       /\ arg[1] # pre.level
            => \E i \in 1 .. Len(trace) : Told(trace[i]) = <<"level", FALSE, arg[1]>>

\* C6: when off() completes successfully with no other operation in flight, the
\* torch is off - also right after a completed on()/setLevel() whose hardware
\* notification is still queued.
C6_OffLeavesTorchOff ==
    \A p \in Procs :
        (clean /\ AllDone /\ p = Issued /\ op[p] = "off" /\ awaited[p] /\ DoneOk(p))
        => ~hwOn

\* C7: n successive awaited successful toggles starting from Off leave the torch
\* on iff n is odd.
C7_ToggleParity ==
    ( /\ FromOff /\ AllDone
      /\ \A p \in Used : op[p] = "toggle" /\ awaited[p] /\ DoneOk(p) )
    => (hwOn <=> Issued % 2 = 1)

\* C8: two toggles issued back-to-back (the second before the first completed)
\* against a torch that is off leave it off once both have completed and every
\* notification has been delivered.
C8_DoubleToggleEndsOff ==
    ( /\ FromOff /\ AllOkAtRest
      /\ Issued = 2 /\ ~awaited[2]
      /\ op[1] = "toggle" /\ op[2] = "toggle" )
    => ~hwOn

\* C9: at most one hardware-mutating adapter call is in progress at any instant.
C9_SingleHardwareCall ==
    Cardinality({p \in Procs : pc[p] = "incall"}) <= 1

\* C10: operations take effect in the order issued: a call is inside the
\* hardware only when every call issued before it has completed, and on()
\* immediately followed by off() ends with the torch off.
C10_Fifo ==
    /\ clean => \A p, q \in Procs : (p < q /\ pc[q] = "incall") => pc[p] = "done"
    /\ ( /\ FromOff /\ AllOkAtRest
         /\ Issued = 2 /\ ~awaited[2]
         /\ op[1] = "on" /\ op[2] = "off" )
       => ~hwOn

\* off() alone, completed, the controller having believed the torch off
C11_Case ==
    /\ FromCoupled /\ ~pre.isOn /\ cfg.cameras = "flash"
    /\ Issued = 1 /\ op[1] = "off"
    /\ AllOkAtRest

\* C11: on a device with a torch, off() issues the hardware off call every
\* time it is invoked - a
\* successful off() never completes straight from its checks, without having
\* been in the hardware call - also when the controller already believes the
\* torch off; in that case no notification is delivered.
C11_OffAlwaysReachesHardware ==
    [][ /\ \A p \in Procs :
             ( /\ clean /\ cfg.cameras = "flash"
               /\ op[p] = "off" /\ pc[p] = "check" /\ pc'[p] = "done" )
             => res'[p] # "ok"
        /\ (C11_Case => trace = << >>)' ]_vars

\* the case of C12: on() alone, completed, the window having opened in On(l)
C12_Case ==
    /\ FromCoupled /\ pre.isOn
    /\ Issued = 1 /\ op[1] = "on"
    /\ AllOkAtRest

\* C12: on() invoked while the torch is already on at level l leaves On(l)
\* unchanged - the power state, the current level and the last notified level
\* keep their values - and delivers neither stateChanged nor levelChanged.
C12_OnWhenOnIsNoOp ==
    C12_Case => /\ trace = << >>
                /\ isTorchOn /\ hwOn
                /\ previousLevel = pre.level
                /\ Ios => RoundLevel(currentLevel) = pre.level

\* C12 happens with the torch at the highest level of the device
C12_Witness == C12_Case /\ pre.level = HwMaxLevel

\* levelChanged number i of the window reports a level appearing or vanishing:
\* its transition changed the power state as well
CrossesNone(i) ==
    IsLevelEv(trace[i]) /\ ((trace[i].lvl = None) # (trace[i].wasLvl = None))

\* C13: for a transition that changes both power state and level, stateChanged
\* is delivered before the corresponding levelChanged and nothing caused by
\* another operation is delivered between the two: a levelChanged whose level
\* appears (vanishes) comes directly after the stateChanged(true) (false) of
\* its transition.
C13_StateThenLevel ==
    FromCoupled =>
        \A i \in 1 .. Len(trace) :
            CrossesNone(i) => /\ i > 1
                              /\ IsStateEv(trace[i - 1])
                              /\ trace[i - 1].on = (trace[i].lvl # None)

\* C14: when the promise of on(), off(), toggle() or setLevel() resolves, every
\* notification the operation caused has been delivered: none is still waiting
\* to be handed to the listener, and the controller's power state is the
\* torch's.
C14_DeliveredOnResolve ==
    (FromCoupled /\ Issued = 1 /\ DoneOk(1)) =>
        /\ queue = << >>
        /\ isTorchOn = hwOn

\* call p is at or past its hardware call
ReachedHardware(p) == pc[p] \in {"incall", "notify", "notifyLevel"}

\* the kind the application is handed for call p, once it has failed
ReportedKind(p) == Reported(res[p])

\* the highest level setLevel accepts on this device
DeviceMaxLevel == IF Android THEN cfg.maxLevel ELSE maxTorchLevel

\* a device on which setLevel gets as far as validating its argument
LevelCapable ==
    /\ cfg.cameras = "flash"
    /\ Android => (cfg.manager /\ cfg.sdk >= TIRAMISU /\ cfg.maxLevel > 1)

\* C15: setLevel(L) with L < 1 or L > maxLevel never reaches the hardware and
\* fails with the error kind InvalidArgument.
C15_OutOfRangeInvalidArgument ==
    \A p \in Procs :
        ( /\ LevelCapable /\ op[p] = "setLevel"
          /\ (arg[p] < 1 \/ arg[p] > DeviceMaxLevel) )
        => /\ ~ReachedHardware(p)
           /\ (clean /\ pc[p] = "done") => ReportedKind(p) = "InvalidArgument"

\* a device that passes the API-level and device checks of setLevel and whose
\* hardware reports a maximum strength level <= 1
C16_Device ==
    /\ Android /\ cfg.manager /\ cfg.sdk >= TIRAMISU
    /\ cfg.cameras = "flash" /\ cfg.maxLevel <= 1

\* C16: on such a device setLevel(L) fails with BrightnessControlNotSupported
\* for every L, L = 1 included, and never reaches the hardware.
C16_BrightnessNotSupported ==
    \A p \in Procs :
        (C16_Device /\ op[p] = "setLevel")
        => /\ ~ReachedHardware(p)
           /\ (clean /\ pc[p] = "done")
                => ReportedKind(p) = "BrightnessControlNotSupported"

\* C16 happens: setLevel(1) has failed on a device with maximum level 1
C16_Witness ==
    /\ C16_Device /\ clean
    /\ op[1] = "setLevel" /\ arg[1] = 1 /\ pc[1] = "done"
    /\ res[1] = "BrightnessControlNotSupported"

\* the kind a native failure r stands for
KindOf(r) == IF r = "TorchException.AccessFailed" THEN "AccessFailed" ELSE r

\* C17: every hardware/platform failure of on, off, toggle and setLevel reaches
\* the caller as a {code, message} record of the matching kind; an access
\* exception of the hardware call gives AccessFailed for setLevel as for the
\* others.
C17_FailuresAreStructured ==
    \A p \in Procs :
        (clean /\ pc[p] = "done" /\ res[p] \notin {"ok", "IllegalArgumentException"})
        => ReportedKind(p) = KindOf(res[p])

\* a device on which no camera reports flash hardware, and which passes the
\* camera-service and API-level checks of call p
C20_Device(p) ==
    /\ cfg.cameras # "flash"
    /\ Android => /\ cfg.manager
                  /\ cfg.sdk >= (IF op[p] = "setLevel" THEN TIRAMISU ELSE MIN_API_LEVEL)

\* C20: on a device on which no camera reports flash hardware, on(), off(),
\* toggle() and setLevel() never reach the hardware and fail with
\* NoFlashAvailable.
C20_NoFlashAvailable ==
    \A p \in Procs :
        (C20_Device(p) /\ pc[p] # "idle")
        => /\ ~ReachedHardware(p)
           /\ (clean /\ pc[p] = "done") => ReportedKind(p) = "NoFlashAvailable"

\* the caught value is not an Error carrying the wire shape {code, message}
Malformed(e) ==
    \/ ~e.isError
    \/ e.shape # "object"
    \/ e.code = "absent"
    \/ e.msg # "string"

\* C18: every caught value that does not parse as the wire shape
\* {code, message} - a non-JSON message, JSON lacking a code, a value that is
\* not an Error - is classified with kind Unknown.
C18_MalformedIsUnknown ==
    (normalized # NoRecord /\ Malformed(caught)) => normalized.code = "Unknown"

\* C19: for every input the record made by parseAndNormalizeError has a code
\* that is one of the declared kinds and a string message.
C19_RecordIsTyped ==
    normalized # NoRecord => /\ normalized.code \in TorchExceptionType
                             /\ normalized.message = "string"

(* ---------------- C21..C30: levels, listeners, dispose ---------------- *)

\* C25: every value handed to the levelChanged listener is none or a whole
\* number from 1 to the device's maximum level, whatever number setLevel was
\* given (whole or not, in range or not).
C25_DeliveredLevelsInRange ==
    \A i \in 1 .. Len(trace) :
        IsLevelEv(trace[i]) =>
            \/ trace[i].lvl = None
            \/ (1 <= trace[i].lvl /\ trace[i].lvl <= DeviceMaxLevel)

\* a setLevel with a number that is not whole went through and the listener
\* was told a level
C25_Witness ==
    \E p \in Procs :
        /\ op[p] = "setLevel" /\ frac[p] /\ DoneOk(p)
        /\ \E i \in 1 .. Len(trace) : IsLevelEv(trace[i]) /\ trace[i].lvl # None

\* C24: each event type has one listener slot: an event goes to the listener
\* the application assigned last for its type, to that one only, and to nobody
\* once the application has assigned undefined.
C24_LatestListenerOnly ==
    [][ \A i \in Len(trace) + 1 .. Len(trace') :
            /\ trace'[i].to = assigned[trace'[i].k]
            /\ trace'[i].to # "none" ]_vars

\* two events of one type in a window, the first heard by A, the second by B
C24_Witness ==
    \E i, j \in 1 .. Len(trace) :
        /\ i < j
        /\ trace[i].k = trace[j].k
        /\ trace[i].to = "A"
        /\ trace[j].to = "B"

\* C21: getMaxLevel(true) returns round(min(c, 1.0) * maxLevel), a whole
\* number, c being the thermal ceiling; getMaxLevel(false) returns the fixed
\* hardware maximum whatever c is.
C21_DynamicMaxIsRounded ==
    (got.called /\ Ios /\ cfg.cameras = "flash") =>
        got.value = IF got.dynamic
                    THEN RoundLevel(Min(cfg.thermal, IosFullIntensity) * maxTorchLevel) * 1000
                    ELSE maxTorchLevel * 1000

\* the rejections by which setLevel says the device cannot do what it asks
CapabilityErrors ==
    {"ApiLevelTooLow", "CameraServiceUnavailable", "NoFlashAvailable",
     "BrightnessControlNotSupported"}

\* call p is a setLevel with a whole level from 1 to what getMaxLevel returned
WithinGot(p) ==
    /\ op[p] = "setLevel" /\ ~frac[p]
    /\ 1 <= arg[p] /\ arg[p] * 1000 <= got.value

C23_GetMaxLevelIsPure ==
    [][ (got' # got) =>
            /\ UNCHANGED <<isTorchOn, currentLevel, previousLevel, cameraId>>
            /\ UNCHANGED <<hwOn, hwLevel, queue>>
            /\ UNCHANGED <<trace, stTick>> ]_vars

\* call p is a dispose() that has returned, made while nothing was pending,
\* and no call was made after it
DisposedLast(p) ==
    /\ clean /\ AllDone /\ Issued = p
    /\ op[p] = "dispose" /\ pc[p] = "done" /\ awaited[p]

\* what dispose is to leave behind: no cached handle, no hardware
\* subscription (Android has one), no last notified level
TornDown == ~cameraId /\ (Android => ~Registered) /\ previousLevel = None

\* C26: after a dispose() made with no other operation in flight has returned,
\* the torch is off, isOn is false, the last notified level is none, the
\* device handle is cleared and the hardware subscription is unregistered.
\* (Stated for a dispose in which no hardware call failed, from a state in
\* which the controller and the torch agreed.)
C26_DisposeLeavesEverythingOff ==
    \A p \in Procs :
        (FromCoupled /\ DisposedLast(p) /\ res[p] = "ok") =>
            ~hwOn /\ ~isTorchOn /\ TornDown

\* C27: a second dispose() raises no error, makes no hardware call, delivers
\* no notification and leaves the controller as the first call left it.
C27_DisposeIsIdempotent ==
    [][ \A p \in Procs \ {1} :
          ( /\ clean /\ FromCoupled
            /\ op[p - 1] = "dispose" /\ pc[p - 1] = "done"
            /\ op[p] = "dispose" /\ awaited[p]
            /\ pc[p] \notin {"idle", "done"}
            /\ pc'[p] # pc[p] /\ clean' )
          => /\ UNCHANGED <<isTorchOn, previousLevel, cameraId, hwOn, hwLevel, queue>>
             /\ UNCHANGED <<trace, unregistered>>
             /\ res'[p] \in {"", "ok", "logged"} ]_vars

\* C28: a dispose() called while an on, toggle or setLevel is pending is
\* ordered with it, so that the torch is off once both have finished.
C28_DisposeWhilePendingEndsOff ==
    ( /\ FromCoupled /\ Settled /\ Issued = MaxCalls
      /\ op[1] \in {"on", "toggle", "setLevel"}
      /\ op[MaxCalls] = "dispose" /\ ~awaited[MaxCalls]
      /\ \A p \in Procs : res[p] = "ok" )
    => ~hwOn

\* C29: when the forced turn-off inside dispose() fails, dispose() surfaces no
\* error and still clears the device handle, unregisters the hardware
\* subscription and resets the last notified level.
C29_FailedTurnOffStillTearsDown ==
    \A p \in Procs :
        (DisposedLast(p) /\ res[p] = "logged") => TornDown

\* call p has read the power state and has not yet issued or skipped its
\* hardware call: a toggle after !isTorchOn, an on/off/toggle after
\* setTorchMode's comparison
MidOperation(p) ==
    /\ op[p] \in {"on", "off", "toggle"}
    /\ \/ op[p] = "toggle" /\ pc[p] = "check"
       \/ pc[p] = "incall"

\* C30: a notification from the hardware is applied between operations only:
\* while an operation is between its read of the power state and its hardware
\* call, no TorchCallback invocation changes isOn or the last notified level.
C30_CallbacksBetweenOperations ==
    [][ ( /\ Android
          /\ Len(queue') < Len(queue)
          /\ \E p \in Procs : MidOperation(p) )
        => UNCHANGED <<isTorchOn, previousLevel>> ]_vars

(* ------------- C31..C39: levels, errors, the hook, the lock ------------- *)

\* the levels the levelChanged listener was told, in order
LevelsTold == [i \in 1 .. Len(LevelEvents(trace)) |-> LevelEvents(trace)[i].lvl]

\* C31: on() from Off turns the torch on at the level set last (level 1 if
\* none was set) and reports it through levelChanged: after an awaited off()
\* and on() from On(L) the listener has been told none, then L, and the torch
\* burns at L; a single on() from Off tells the listener the level it burns at.
C31_OnRestoresLastLevel ==
    /\ ( /\ FromCoupled /\ pre.isOn /\ AllOkAtRest
         /\ Issued = MaxCalls /\ op[1] = "off" /\ op[MaxCalls] = "on"
         /\ awaited[MaxCalls] )
       => /\ LevelsTold = << None, pre.level >>
          /\ TorchLevel = pre.level
    /\ ( /\ FromOff /\ AllOkAtRest /\ Issued = 1 /\ op[1] = "on" )
       => /\ hwOn
          /\ LevelsTold = << TorchLevel >>

\* C32: with the thermal ceiling at 1.0, a whole level L of the device's range
\* taken to the native scale and back is L again, on the continuous scale
\* (L / maxLevel within 0.1 .. 1.0, back by times maxLevel, rounded) and on the
\* discrete one (L as it is), and a higher level never gets a lower native value.
C32_LevelRoundTrip ==
    (cfg.thermal = IosFullIntensity) =>
        /\ conv.stage = "back" => conv.back = conv.level
        /\ (conv.stage = "back" /\ conv.scale = "continuous")
              => /\ RoundLevel(conv.native * maxTorchLevel) * 1000 = conv.level
                 /\ IosMinIntensity <= conv.native /\ conv.native <= IosFullIntensity
        /\ (conv.stage = "back" /\ conv.scale = "discrete")
              => conv.native * 1000 = conv.level
        /\ conv.scale = "continuous"
              => \A l1, l2 \in DeviceLevels, e1, e2 \in FloatErrors :
                    l1 < l2 => ClampedLevel(Normalized(l1 * 1000) + e1)
                                  < ClampedLevel(Normalized(l2 * 1000) + e2)

\* the highest level of each scale has made the round trip
C32_Witness ==
    /\ cfg.thermal = IosFullIntensity
    /\ conv.stage = "back"
    /\ conv.level = DeviceMaxLevel * 1000
    /\ conv.err # 0 \/ conv.scale = "discrete"

C34_HookAbsorbsErrors ==
    (hook.outcome \notin {"none", "pending"}) =>
        /\ hook.outcome # "rejected"
        /\ (hook.method # "getMaxLevel") => hook.outcome = "resolved"
        /\ (caught # NothingCaught) =>
              /\ hook.told = IF hook.handler THEN << normalized >> ELSE << >>
              /\ (hook.method = "getMaxLevel") => hook.outcome = "null"
        /\ (caught = NothingCaught) => hook.told = << >>

\* a failed setLevel was reported to the onError handler
C34_Witness ==
    /\ hook.method = "setLevel"
    /\ hook.handler
    /\ hook.outcome = "resolved"
    /\ caught # NothingCaught
    /\ Len(hook.told) = 1


\* the only call of a clean window has failed
C35_Failed == clean /\ Issued = 1 /\ pc[1] = "done" /\ res[1] # "ok"

\* a step of a call: the raw level moves only on the way to the notifications,
\* a call that reached its notifications succeeds, and the step in which a
\* call fails moves neither the power state nor a level
C35_Step ==
    /\ (currentLevel' # currentLevel) =>
          \E p \in Procs : pc[p] = "incall" /\ pc'[p] = "notify"
    /\ \A p \in Procs :
          (pc[p] # "done" /\ pc'[p] = "done" /\ op'[p] \in Ops) =>
              IF pc[p] \in {"notify", "notifyLevel"}
              THEN res'[p] = "ok"
              ELSE (res'[p] # "ok") =>
                      /\ isTorchOn' = isTorchOn
                      /\ previousLevel' = previousLevel
                      /\ currentLevel' = currentLevel
                      /\ trace' = trace

\* C35: an on, off, toggle or setLevel that fails leaves isOn, the current
\* level and the last notified level as they were before the call, and no
\* stateChanged or levelChanged is delivered.
C35_FailureChangesNothing ==
    /\ [](C35_Failed =>
             /\ isTorchOn = pre.isOn
             /\ previousLevel = pre.level
             /\ trace = << >>)
    /\ [][C35_Step]_vars

\* a setLevel on a lit torch was refused by the hardware
C35_Witness ==
    /\ C35_Failed
    /\ op[1] = "setLevel"
    /\ pre.isOn
    /\ res[1] \in {"AccessFailed", "TorchException.AccessFailed"}


\* C36: the level told to the level listener is the discrete conversion of the
\* intensity the hardware was given: with the thermal ceiling below 1.0, the
\* level told after a successful setLevel or on is round(intensity * maxLevel)
\* and never exceeds what getMaxLevel(true) returns at that moment.
C36_ReportedWithinCeiling ==
    ( /\ Ios
      /\ cfg.thermal < IosFullIntensity
      /\ clean /\ Issued = 1 /\ DoneOk(1)
      /\ op[1] \in {"setLevel", "on"} )
    => \A i \in DOMAIN LevelsTold :
          /\ LevelsTold[i] * 1000 <= IosMaxLevel(TRUE)
          /\ LevelsTold[i] = RoundLevel(hwLevel * maxTorchLevel)


\* the handler thread runs a TorchCallback invocation made for another unit
C37_OtherHandled == queue # << >> /\ ~Head(queue).own /\ queue' = Tail(queue)

\* C37: a torch-mode or strength notification for a camera id other than the
\* selected one changes neither isOn nor the last notified level, and no
\* stateChanged (stTick flips with each one) or levelChanged (each one moves the
\* last notified level) is delivered.
C37_OtherUnitIgnored ==
    [][C37_OtherHandled =>
          /\ isTorchOn' = isTorchOn
          /\ previousLevel' = previousLevel
          /\ stTick' = stTick
          /\ trace' = trace]_vars


\* C38: the cleanup of a hook removes only that component's listeners: when
\* the earlier mounted of two components unmounts, the listeners of the later
\* one stay assigned, so that it is the one called at every later event.
C38_CleanupKeepsOthers ==
    [][(Len(mounted) = 2 /\ mounted' = << mounted[2] >>) =>
          /\ onStateChanged' = mounted[2]
          /\ onLevelChanged' = mounted[2]]_vars


\* C39: in the iOS setTorchMode every lockForConfiguration that succeeded is
\* followed by unlockForConfiguration before the operation finishes, whether the
\* hardware call returns or throws: no finished call still holds the lock.
C39_LockReleased ==
    \A p \in Procs : (Ios /\ pc[p] = "done") => ~locked[p]

====
